---- MODULE Spec2Model ----
(***************************************************************************)
(* State-machine model of public/site.js: the link hardener, the page     *)
(* transition controller, the hero autoplay retry, the mobile drawer       *)
(* controller and the init sequencer.  Every handler of the script is one  *)
(* action; the browser (focus, timers, promises, events) is the            *)
(* environment.                                                            *)
(***************************************************************************)
EXTENDS Integers, Sequences, FiniteSets, TLC

VARIABLES
    \* ---- init sequencer
    readyState,      \* document.readyState when the script is evaluated: "loading" or "complete"
    initRuns,        \* how many times init() has run
    \* ---- mobile drawer controller
    present,         \* which of the four DOM handles exist in the markup
    drawerEls,       \* the drawer's descendants in document order (element kinds)
    navInstalled,    \* initMobileNav got past its guard and registered its handlers
    navOpen,         \* body.classList.contains("nav-open")
    ariaExpanded,    \* toggle's aria-expanded attribute
    ariaHidden,      \* drawer's aria-hidden attribute
    backdropHidden,  \* backdrop has the hidden attribute
    keydownOn,       \* onKeydown is registered on document
    activeElement,   \* document.activeElement
    lastFocused,     \* the closure variable lastFocused
    pageConnected,   \* the page element outside the drawer is still in the DOM and focusable
    \* ---- a second call of initMobileNav: its closure and its listeners
    navInstalled2,   \* a second call got past the guard and registered its handlers
    keydownOn2,      \* the second closure's onKeydown is registered on document
    lastFocused2,    \* the second closure's variable lastFocused
    secondFirst,     \* both onKeydown are registered, the second closure's first
    ev,              \* the event or callback that ran last
    prevented,       \* its defaultPrevented
    \* ---- page transition controller
    anchor,          \* the page's anchor (drawer links are like it): [cls, rel, target, href]
    isExiting,       \* body.classList.contains("is-exiting")
    navTimers,       \* pending setTimeout(..., 240) callbacks: [url, delay, elapsed]
    location,        \* window.location.href
    \* ---- link hardener bookkeeping
    enhanceRuns,     \* how many times enhanceButtonLinks has run
    firstRun,        \* the anchor as the first run left it
    \* ---- page load and hero autoplay
    loadPhase,       \* "waiting", "raf1", "raf2", "done": position of the load handler's callbacks
    isPreload,       \* body.classList.contains("is-preload")
    painted,         \* a frame has been rendered since the load event
    hasVideo,        \* document.querySelector("video.hero-image") finds an element
    prefersReduce,   \* matchMedia("(prefers-reduced-motion: reduce)").matches
    videoReady,      \* v.readyState >= 2
    autoplayOn,      \* attemptHeroVideoAutoplay got past its guards (listeners installed)
    loadedDataArmed, \* the once-listener for loadeddata is registered
    gestureArmed,    \* which once-listeners of touchstart/click/scroll are still registered
    docHidden,       \* document.hidden
    paused,          \* v.paused
    tries,           \* the closure variable tries
    playTimers,      \* pending setTimeout(..., delay) callbacks of tryPlay
    playCalls,       \* how many times v.play() has been invoked
    pendingRejects,  \* play() promises that will reject and whose catch handler has not run yet
    rejections,      \* how many catch handlers have run
    autoplayAttr     \* v.dataset.autoplay

initVars == <<readyState, initRuns>>
drawerCfg == <<present, drawerEls>>
drawerDom == <<navOpen, ariaExpanded, ariaHidden, backdropHidden, keydownOn, activeElement, lastFocused>>
secondVars == <<navInstalled2, keydownOn2, lastFocused2, secondFirst>>
drawerVars == <<drawerCfg, navInstalled, drawerDom, pageConnected, secondVars>>
eventVars == <<ev, prevented>>
transVars == <<isExiting, navTimers, location>>
linkVars == <<anchor, enhanceRuns, firstRun>>
loadVars == <<loadPhase, isPreload, painted>>
videoCfg == <<hasVideo, prefersReduce>>
autoVars == <<videoReady, autoplayOn, loadedDataArmed, gestureArmed, docHidden, paused, tries,
              playTimers, playCalls, pendingRejects, rejections, autoplayAttr>>
vars == <<initVars, drawerVars, eventVars, transVars, linkVars, loadVars, videoCfg, autoVars>>

----------------------------------------------------------------------------
(* Bounds of the model *)

\* longest list of drawer descendants
MaxDrawer == 2
\* longest rel attribute, in symbols
MaxRelLen == 3
\* most exit timers pending at once
MaxNavTimers == 2
\* how far the clock advances in one step, in ms
TickMs == 120
\* most runs of enhanceButtonLinks
MaxEnhanceRuns == 3

----------------------------------------------------------------------------
(* Program constants *)

maxTries == 4
ExitDelay == 240
Breakpoint == 720

----------------------------------------------------------------------------
(* The DOM the script works on *)

Handles == {"toggle", "drawer", "backdrop", "closeBtn"}

\* Kinds of drawer descendants: a link, a disabled button, a div, and the
\* .menu-close button itself when it sits inside the drawer.
DrawerKinds == {"a", "disabled", "div", "close"}

DId == <<"d1", "d2", "d3", "d4">>

\* The element at position i of the drawer.
ElRef(i) == IF drawerEls[i] = "close" THEN "closeBtn" ELSE DId[i]

DrawerIds == {ElRef(i) : i \in 1..Len(drawerEls)}

KindOf(el) == drawerEls[CHOOSE i \in 1..Len(drawerEls) : ElRef(i) = el]

\* 'a, button, input, select, textarea, [tabindex]:not([tabindex="-1"])'
MatchesSelector(kind) == kind \in {"a", "disabled", "close"}

HasDisabled(kind) == kind = "disabled"

RECURSIVE FocusableFrom(_)
FocusableFrom(i) ==
    IF i > Len(drawerEls) THEN <<>>
    ELSE (IF MatchesSelector(drawerEls[i]) /\ ~HasDisabled(drawerEls[i])
          THEN <<ElRef(i)>> ELSE <<>>) \o FocusableFrom(i + 1)

getFocusable == FocusableFrom(1)

\* Whether el.focus() moves the focus: the element is in the document and
\* is a focusable area.  body and a removed element are not.
CanFocus(el) ==
    CASE el = "toggle" -> "toggle" \in present
      [] el = "closeBtn" -> "closeBtn" \in present
      [] el = "page" -> pageConnected
      [] el \in DrawerIds -> KindOf(el) = "a"
      [] OTHER -> FALSE

\* document.activeElement after el.focus(), when it was cur before.
Focus(cur, el) == IF CanFocus(el) THEN el ELSE cur

\* typeof el.focus === "function": true of every element, in the document or not.
HasFocusMethod(el) == el # "null"

\* document.activeElement after a mouse click on el: browsers either leave
\* the focus alone (buttons in Safari) or move it to the clicked element,
\* to body when that element is not focusable.
ClickFocus(el, moves) ==
    IF moves THEN (IF CanFocus(el) THEN el ELSE "body") ELSE activeElement

\* Sequential focus navigation order of the document.
TabOrder ==
    (IF "toggle" \in present THEN <<"toggle">> ELSE <<>>)
    \o (IF pageConnected THEN <<"page">> ELSE <<>>)
    \o (IF "closeBtn" \in present /\ "closeBtn" \notin DrawerIds THEN <<"closeBtn">> ELSE <<>>)
    \o getFocusable

IndexIn(seq, el) ==
    IF \E i \in 1..Len(seq) : seq[i] = el
    THEN CHOOSE i \in 1..Len(seq) : seq[i] = el
    ELSE 0

\* The browser's default action for Tab / Shift+Tab.
NextTab(cur, shift) ==
    LET n == Len(TabOrder)
        i == IndexIn(TabOrder, cur)
    IN  IF n = 0 THEN cur
        ELSE IF shift
             THEN (IF i <= 1 THEN TabOrder[n] ELSE TabOrder[i - 1])
             ELSE (IF i = 0 \/ i = n THEN TabOrder[1] ELSE TabOrder[i + 1])

----------------------------------------------------------------------------
(* Link hardener *)

Words == {"noopener", "noreferrer", "x", "y"}
Space == " "
Tab == "\t"
RelSyms == Words \cup {Space, Tab}

\* str.split(sep): the pieces of s between occurrences of the symbol sep.
RECURSIVE Split(_, _)
Split(s, sep) ==
    IF \A i \in 1..Len(s) : s[i] # sep THEN <<s>>
    ELSE LET k == CHOOSE i \in 1..Len(s) : s[i] = sep /\ \A j \in 1..(i - 1) : s[j] # sep
         IN  <<SubSeq(s, 1, k - 1)>> \o Split(SubSeq(s, k + 1, Len(s)), sep)

NonEmpty(p) == p # <<>>

\* parts.join(" ")
RECURSIVE Join(_)
Join(parts) ==
    IF parts = <<>> THEN <<>>
    ELSE IF Len(parts) = 1 THEN parts[1]
    ELSE parts[1] \o <<Space>> \o Join(Tail(parts))

Includes(parts, w) == \E i \in 1..Len(parts) : parts[i] = <<w>>

\* Mutation: the token is pushed without the includes() test.
PushAlways(parts, w) == Append(parts, <<w>>)

PushIfMissing(parts, w) == IF Includes(parts, w) THEN parts ELSE Append(parts, <<w>>)

\* Mutation: rel is overwritten instead of extended.
EnhanceRelOverwrite(rel) == <<"noopener", Space, "noreferrer">>

\* The new rel attribute of an enhanced anchor (lines 10-13).
EnhanceRel(rel) ==
    LET relParts == SelectSeq(Split(rel, Space), NonEmpty)
    IN  Join(PushIfMissing(PushIfMissing(relParts, "noopener"), "noreferrer"))

\* root.querySelectorAll("a.btn, a.cta")
IsButtonLink(a) == a.cls \in {"btn", "cta"}

\* Mutation: the hardener leaves the target attribute alone.
EnhanceAnchorRelOnly(a) ==
    IF IsButtonLink(a)
    THEN [a EXCEPT !.rel = EnhanceRel(a.rel)]
    ELSE a

EnhanceAnchor(a) ==
    IF IsButtonLink(a)
    THEN [a EXCEPT !.target = "_blank", !.rel = EnhanceRel(a.rel)]
    ELSE a

enhanceButtonLinks ==
    /\ anchor' = EnhanceAnchor(anchor)
    /\ enhanceRuns' = enhanceRuns + 1
    /\ firstRun' = IF enhanceRuns = 0 THEN EnhanceAnchor(anchor) ELSE firstRun

----------------------------------------------------------------------------
(* Page transition controller: the document click handler *)

Here == "/"
Hrefs == {"/about", "#section", "https://other.example/"}
Modifiers == {"meta", "ctrl", "shift", "alt"}

\* new URL(a.href, window.location.href).origin === window.location.origin
SameOrigin(href) == href # "https://other.example/"

StartsWithHash(href) == href = "#section"

isInternalLink(a) == SameOrigin(a.href) /\ a.target = ""

\* Mutation: the modifier keys are not looked at.
InterceptsAnyModifier(closestA, a, mods) ==
    /\ closestA
    /\ SameOrigin(a.href) /\ a.target = ""
    /\ a.target # "_blank"
    /\ a.href # "#section"

\* The guards of the click handler (lines 82-96): closestA is whether
\* e.target.closest("a") finds the anchor, mods the modifier keys held.
Intercepts(closestA, a, mods) ==
    /\ closestA
    /\ isInternalLink(a)
    /\ ~(mods # {} \/ a.target = "_blank")
    /\ ~StartsWithHash(a.href)

\* Mutation: the exit timer is scheduled without delay.
DocumentClickNoDelay(closestA, a, mods) ==
    IF closestA /\ SameOrigin(a.href) /\ a.target = "" /\ mods = {} /\ a.href # "#section"
    THEN /\ prevented' = TRUE
         /\ isExiting' = TRUE
         /\ navTimers' = Append(navTimers, [url |-> a.href, delay |-> 0, elapsed |-> 0])
         /\ UNCHANGED location
    ELSE /\ prevented' = FALSE
         /\ UNCHANGED transVars

\* The document click handler on one click event.
DocumentClick(closestA, a, mods) ==
    IF Intercepts(closestA, a, mods)
    THEN /\ prevented' = TRUE
         /\ isExiting' = TRUE
         /\ navTimers' = Append(navTimers, [url |-> a.href, delay |-> ExitDelay, elapsed |-> 0])
         /\ UNCHANGED location
    ELSE /\ prevented' = FALSE
         /\ UNCHANGED transVars

\* Whether the handler may run without exceeding the model's timer bound.
TimerRoom(closestA, a, mods) ==
    Intercepts(closestA, a, mods) => Len(navTimers) < MaxNavTimers


----------------------------------------------------------------------------
(* Hero autoplay retry *)

Gestures == {"touchstart", "click", "scroll"}

\* What v.play() can do: its promise resolves (playback starts), its
\* promise rejects (autoplay blocked, the video stays paused), or, in a
\* browser without promise support, it returns nothing and playback starts
\* or not.
PlayOutcomes ==
    { [promise |-> "resolves", starts |-> TRUE],
      [promise |-> "rejects", starts |-> FALSE],
      [promise |-> "none", starts |-> TRUE],
      [promise |-> "none", starts |-> FALSE] }

\* Mutation: the cap is tested with > instead of >=.
tryPlayOffByOne ==
    IF tries > maxTries
    THEN UNCHANGED <<tries, playTimers>>
    ELSE /\ tries' = tries + 1
         /\ playTimers' = playTimers + 1

\* tryPlay(0): lines 41-53, up to the setTimeout call.
tryPlay ==
    IF tries >= maxTries
    THEN UNCHANGED <<tries, playTimers>>
    ELSE /\ tries' = tries + 1
         /\ playTimers' = playTimers + 1

\* if (v.paused) tryPlay(0)
tryPlayIfPaused == IF paused THEN tryPlay ELSE UNCHANGED <<tries, playTimers>>

\* Mutation: the reduced-motion preference is not consulted.
attemptIgnoringPreference ==
    IF ~hasVideo
    THEN UNCHANGED autoVars
    ELSE /\ autoplayOn' = TRUE
         /\ IF videoReady
            THEN tryPlay /\ UNCHANGED loadedDataArmed
            ELSE loadedDataArmed' = TRUE /\ UNCHANGED <<tries, playTimers>>
         /\ gestureArmed' = Gestures
         /\ UNCHANGED <<videoReady, docHidden, paused, playCalls, pendingRejects,
                        rejections, autoplayAttr>>

\* attemptHeroVideoAutoplay(): lines 29-73.
attemptHeroVideoAutoplay ==
    IF ~hasVideo \/ prefersReduce
    THEN UNCHANGED autoVars
    ELSE /\ autoplayOn' = TRUE
         /\ IF videoReady
            THEN tryPlay /\ UNCHANGED loadedDataArmed
            ELSE loadedDataArmed' = TRUE /\ UNCHANGED <<tries, playTimers>>
         /\ gestureArmed' = Gestures
         /\ UNCHANGED <<videoReady, docHidden, paused, playCalls, pendingRejects,
                        rejections, autoplayAttr>>

\* The once-listener of a gesture event on window (lines 64-72).
GestureListener(evt) ==
    IF autoplayOn /\ evt \in gestureArmed
    THEN /\ gestureArmed' = gestureArmed \ {evt}
         /\ tryPlayIfPaused
         /\ UNCHANGED <<videoReady, autoplayOn, loadedDataArmed, docHidden, paused,
                        playCalls, pendingRejects, rejections, autoplayAttr>>
    ELSE UNCHANGED autoVars

\* The setTimeout callback of tryPlay (lines 44-52): calls v.play() and
\* attaches the catch handler when a promise comes back.
PlayCallback(o) ==
    /\ playTimers' = playTimers - 1
    /\ playCalls' = playCalls + 1
    /\ paused' = IF o.starts THEN FALSE ELSE paused
    /\ pendingRejects' = IF o.promise = "rejects" THEN pendingRejects + 1 ELSE pendingRejects

\* Mutation: the catch handler does not mark the video.
CatchHandlerSilent ==
    /\ UNCHANGED autoplayAttr
    /\ rejections' = rejections + 1

\* Mutation: the catch handler flips the marker.
CatchHandlerToggle ==
    /\ autoplayAttr' = IF autoplayAttr = "failed" THEN "none" ELSE "failed"
    /\ rejections' = rejections + 1

\* The catch handler (lines 47-50).
CatchHandler ==
    /\ autoplayAttr' = "failed"
    /\ rejections' = rejections + 1

----------------------------------------------------------------------------
(* Mobile drawer controller *)

\* Mutation: open() without its guard.
openUnguarded(cur) ==
    /\ lastFocused' = cur
    /\ navOpen' = TRUE
    /\ ariaHidden' = "false"
    /\ ariaExpanded' = "true"
    /\ backdropHidden' = FALSE
    /\ activeElement' = Focus(cur, IF getFocusable # <<>> THEN getFocusable[1] ELSE "closeBtn")
    /\ keydownOn' = TRUE

\* open(), lines 147-157, with document.activeElement = cur on entry.
open(cur) ==
    IF navOpen
    THEN /\ activeElement' = cur
         /\ UNCHANGED <<navOpen, ariaExpanded, ariaHidden, backdropHidden, keydownOn, lastFocused>>
    ELSE /\ lastFocused' = cur
         /\ navOpen' = TRUE
         /\ ariaHidden' = "false"
         /\ ariaExpanded' = "true"
         /\ backdropHidden' = FALSE
         /\ activeElement' = Focus(cur, IF getFocusable # <<>> THEN getFocusable[1] ELSE "closeBtn")
         /\ keydownOn' = TRUE

\* Mutation: close() forgets to hide the backdrop.
closeLeavesBackdrop(cur) ==
    IF ~navOpen
    THEN /\ activeElement' = cur
         /\ UNCHANGED <<navOpen, ariaExpanded, ariaHidden, backdropHidden, keydownOn, lastFocused>>
    ELSE /\ navOpen' = FALSE
         /\ ariaHidden' = "true"
         /\ ariaExpanded' = "false"
         /\ keydownOn' = FALSE
         /\ activeElement' = IF HasFocusMethod(lastFocused)
                             THEN Focus(cur, lastFocused)
                             ELSE Focus(cur, "toggle")
         /\ UNCHANGED <<backdropHidden, lastFocused>>

\* close(), lines 159-171, with document.activeElement = cur on entry.
close(cur) ==
    IF ~navOpen
    THEN /\ activeElement' = cur
         /\ UNCHANGED <<navOpen, ariaExpanded, ariaHidden, backdropHidden, keydownOn, lastFocused>>
    ELSE /\ navOpen' = FALSE
         /\ ariaHidden' = "true"
         /\ ariaExpanded' = "false"
         /\ backdropHidden' = TRUE
         /\ keydownOn' = FALSE
         /\ activeElement' = IF HasFocusMethod(lastFocused)
                             THEN Focus(cur, lastFocused)
                             ELSE Focus(cur, "toggle")
         /\ UNCHANGED lastFocused

\* The toggle's click listener, lines 173-177.
\* Mutation: the toggle listener closes unless aria-expanded is "false".
toggleListenerNotFalse(cur) == IF ariaExpanded # "false" THEN close(cur) ELSE open(cur)

toggleListener(cur) ==
    IF ariaExpanded = "true" THEN close(cur) ELSE open(cur)

\* Mutation: trapTab never cancels the key.
trapTabNoWrap(shift) ==
    /\ prevented' = FALSE
    /\ activeElement' = NextTab(activeElement, shift)

\* Mutation: trapTab wraps to the wrong end.
trapTabWrongEnd(shift) ==
    LET focusables == getFocusable
        first == focusables[1]
        last == focusables[Len(focusables)]
    IN  IF ~navOpen \/ focusables = <<>>
        THEN /\ prevented' = FALSE
             /\ activeElement' = NextTab(activeElement, shift)
        ELSE IF shift /\ activeElement = first
        THEN /\ prevented' = TRUE
             /\ activeElement' = Focus(activeElement, first)
        ELSE IF ~shift /\ activeElement = last
        THEN /\ prevented' = TRUE
             /\ activeElement' = Focus(activeElement, last)
        ELSE /\ prevented' = FALSE
             /\ activeElement' = NextTab(activeElement, shift)

\* trapTab(e), lines 123-137, for e.key = "Tab"; the browser's default
\* action follows when the handler has not cancelled it.
trapTab(shift) ==
    LET focusables == getFocusable
        first == focusables[1]
        last == focusables[Len(focusables)]
    IN  IF ~navOpen \/ focusables = <<>>
        THEN /\ prevented' = FALSE
             /\ activeElement' = NextTab(activeElement, shift)
        ELSE IF shift /\ activeElement = first
        THEN /\ prevented' = TRUE
             /\ activeElement' = Focus(activeElement, last)
        ELSE IF ~shift /\ activeElement = last
        THEN /\ prevented' = TRUE
             /\ activeElement' = Focus(activeElement, first)
        ELSE /\ prevented' = FALSE
             /\ activeElement' = NextTab(activeElement, shift)

\* Mutation: the guard forgets the backdrop and the close button.
initMobileNavLax == navInstalled' = ({"toggle", "drawer"} \subseteq present)

\* initMobileNav(), lines 106-194: the handlers are registered only when
\* all four handles are found.
initMobileNav == navInstalled' = (present = Handles)

Widths == {Breakpoint - 240, Breakpoint, Breakpoint + 1, Breakpoint + 304}


----------------------------------------------------------------------------
(* Events: one action per event the browser dispatches to the script *)

\* Script evaluation has finished: when the document was past "loading",
\* init() ran within it (line 205).
Started == readyState = "loading" \/ initRuns > 0

ModSets == {{}} \cup {{m} : m \in Modifiers} \cup {Modifiers}

drawerRest == <<navOpen, ariaExpanded, ariaHidden, backdropHidden, keydownOn, lastFocused>>

Event(type, target, mods) == [type |-> type, target |-> target, mods |-> mods]

\* init(), lines 197-206: immediately, or on DOMContentLoaded.
RunInit ==
    /\ initRuns = 0
    /\ initRuns' = initRuns + 1
    /\ enhanceButtonLinks
    /\ initMobileNav
    /\ ev' = Event("init", "document", {})
    /\ prevented' = FALSE
    /\ UNCHANGED <<readyState, drawerCfg, secondVars, drawerDom, pageConnected, transVars,
                   loadVars, videoCfg, autoVars>>

\* A click on the toggle button.
ToggleClick(moves) ==
    /\ Started
    /\ "toggle" \in present
    /\ LET cur == ClickFocus("toggle", moves)
       IN  IF navInstalled THEN toggleListener(cur)
           ELSE activeElement' = cur /\ UNCHANGED drawerRest
    /\ DocumentClick(FALSE, anchor, {})
    /\ GestureListener("click")
    /\ ev' = Event("click", "toggle", {})
    /\ UNCHANGED <<initVars, drawerCfg, secondVars, navInstalled, pageConnected, linkVars, loadVars, videoCfg>>

\* A click on the close button (line 179).
CloseBtnClick(moves) ==
    /\ Started
    /\ "closeBtn" \in present
    /\ LET cur == ClickFocus("closeBtn", moves)
       IN  IF navInstalled THEN close(cur)
           ELSE activeElement' = cur /\ UNCHANGED drawerRest
    /\ DocumentClick(FALSE, anchor, {})
    /\ GestureListener("click")
    /\ ev' = Event("click", "closeBtn", {})
    /\ UNCHANGED <<initVars, drawerCfg, secondVars, navInstalled, pageConnected, linkVars, loadVars, videoCfg>>

\* A click on the backdrop (line 180); it can be clicked only when shown.
BackdropClick(moves) ==
    /\ Started
    /\ "backdrop" \in present
    /\ ~backdropHidden
    /\ LET cur == ClickFocus("backdrop", moves)
       IN  IF navInstalled THEN close(cur)
           ELSE activeElement' = cur /\ UNCHANGED drawerRest
    /\ DocumentClick(FALSE, anchor, {})
    /\ GestureListener("click")
    /\ ev' = Event("click", "backdrop", {})
    /\ UNCHANGED <<initVars, drawerCfg, secondVars, navInstalled, pageConnected, linkVars, loadVars, videoCfg>>

\* A click on link i of the drawer: the drawer's listener (lines 183-188),
\* then the document's (lines 81-103).
DrawerLinkClick(i, moves, mods) ==
    /\ Started
    /\ "drawer" \in present
    /\ i \in 1..Len(drawerEls)
    /\ drawerEls[i] = "a"
    /\ TimerRoom(TRUE, anchor, mods)
    /\ LET cur == ClickFocus(ElRef(i), moves)
       IN  IF navInstalled THEN close(cur)
           ELSE activeElement' = cur /\ UNCHANGED drawerRest
    /\ DocumentClick(TRUE, anchor, mods)
    /\ GestureListener("click")
    /\ ev' = Event("click", ElRef(i), mods)
    /\ UNCHANGED <<initVars, drawerCfg, secondVars, navInstalled, pageConnected, linkVars, loadVars, videoCfg>>

\* An Escape keydown: onKeydown (lines 139-145) when it is registered.
KeydownEscape ==
    /\ Started
    /\ IF keydownOn THEN close(activeElement) ELSE UNCHANGED drawerDom
    /\ ev' = Event("keydown", "Escape", {})
    /\ prevented' = FALSE
    /\ UNCHANGED <<initVars, drawerCfg, secondVars, navInstalled, pageConnected, transVars, linkVars,
                   loadVars, videoCfg, autoVars>>

\* A Tab or Shift+Tab keydown: onKeydown -> trapTab when registered, and
\* the browser's focus navigation unless cancelled.
KeydownTab(shift) ==
    /\ Started
    /\ IF keydownOn THEN trapTab(shift)
       ELSE prevented' = FALSE /\ activeElement' = NextTab(activeElement, shift)
    /\ ev' = Event("keydown", "Tab", IF shift THEN {"shift"} ELSE {})
    /\ UNCHANGED <<initVars, drawerCfg, secondVars, navInstalled, drawerRest, pageConnected, transVars,
                   linkVars, loadVars, videoCfg, autoVars>>

\* A keydown of a key that is neither Escape nor Tab: onKeydown calls trapTab,
\* which returns at once (line 124).
OtherKeys == {"ArrowDown"}

KeydownOther(key) ==
    /\ Started
    /\ key \in OtherKeys
    /\ ev' = Event("keydown", key, {})
    /\ prevented' = FALSE
    /\ UNCHANGED <<initVars, drawerVars, transVars, linkVars, loadVars, videoCfg, autoVars>>

\* Mutation: the resize listener closes at the breakpoint itself.
ResizeAtBreakpoint(w) ==
    /\ Started
    /\ IF navInstalled /\ w >= Breakpoint THEN close(activeElement) ELSE UNCHANGED drawerDom
    /\ ev' = Event("resize", "window", {})
    /\ prevented' = FALSE
    /\ UNCHANGED <<initVars, drawerCfg, secondVars, navInstalled, pageConnected, transVars, linkVars,
                   loadVars, videoCfg, autoVars>>

\* A resize event with window.innerWidth = w (lines 191-193).
Resize(w) ==
    /\ Started
    /\ IF navInstalled /\ w > Breakpoint THEN close(activeElement) ELSE UNCHANGED drawerDom
    /\ ev' = Event("resize", "window", {})
    /\ prevented' = FALSE
    /\ UNCHANGED <<initVars, drawerCfg, secondVars, navInstalled, pageConnected, transVars, linkVars,
                   loadVars, videoCfg, autoVars>>

\* The user focuses something outside the closed drawer, or nothing.
UserFocus(el) ==
    /\ Started
    /\ ~navOpen
    /\ el \in {"body", "toggle", "page"}
    /\ el = "body" \/ CanFocus(el)
    /\ activeElement' = el
    /\ ev' = Event("focus", el, {})
    /\ prevented' = FALSE
    /\ UNCHANGED <<initVars, drawerCfg, secondVars, navInstalled, drawerRest, pageConnected, transVars,
                   linkVars, loadVars, videoCfg, autoVars>>

\* The page element is removed from the document (or disabled); the
\* browser moves the focus to body when it had it.
RemovePage ==
    /\ Started
    /\ pageConnected
    /\ pageConnected' = FALSE
    /\ activeElement' = IF activeElement = "page" THEN "body" ELSE activeElement
    /\ ev' = Event("remove", "page", {})
    /\ prevented' = FALSE
    /\ UNCHANGED <<initVars, drawerCfg, secondVars, navInstalled, drawerRest, transVars,
                   linkVars, loadVars, videoCfg, autoVars>>

\* A click on the page's anchor, or on an element inside it.
AnchorClick(mods) ==
    /\ Started
    /\ TimerRoom(TRUE, anchor, mods)
    /\ DocumentClick(TRUE, anchor, mods)
    /\ GestureListener("click")
    /\ ev' = Event("click", "anchor", mods)
    /\ UNCHANGED <<initVars, drawerVars, linkVars, loadVars, videoCfg>>

\* A click on a page element that is neither an anchor nor a drawer control.
PageClick(mods) ==
    /\ Started
    /\ DocumentClick(FALSE, anchor, mods)
    /\ GestureListener("click")
    /\ ev' = Event("click", "page", mods)
    /\ UNCHANGED <<initVars, drawerVars, linkVars, loadVars, videoCfg>>

\* enhanceButtonLinks(root) called again.
EnhanceAgain ==
    /\ initRuns > 0
    /\ enhanceRuns < MaxEnhanceRuns
    /\ enhanceButtonLinks
    /\ ev' = Event("enhance", "document", {})
    /\ prevented' = FALSE
    /\ UNCHANGED <<initVars, drawerVars, transVars, loadVars, videoCfg, autoVars>>

Min(a, b) == IF a < b THEN a ELSE b

\* Time passes: every pending exit timer ages by TickMs.
Tick ==
    /\ \E i \in 1..Len(navTimers) : navTimers[i].elapsed < navTimers[i].delay
    /\ navTimers' = [i \in 1..Len(navTimers) |->
                        [navTimers[i] EXCEPT !.elapsed = Min(@ + TickMs, navTimers[i].delay)]]
    /\ ev' = Event("tick", "clock", {})
    /\ prevented' = FALSE
    /\ UNCHANGED <<initVars, drawerVars, isExiting, location, linkVars, loadVars,
                   videoCfg, autoVars>>

\* The oldest exit timer is due: its callback (lines 100-102) runs.
NavTimerFires ==
    /\ navTimers # <<>>
    /\ Head(navTimers).elapsed >= Head(navTimers).delay
    /\ location' = Head(navTimers).url
    /\ navTimers' = Tail(navTimers)
    /\ ev' = Event("timeout", "navigate", {})
    /\ prevented' = FALSE
    /\ UNCHANGED <<initVars, drawerVars, isExiting, linkVars, loadVars, videoCfg,
                   autoVars>>

\* The window load event (line 18): requests the first animation frame.
Load ==
    /\ Started
    /\ loadPhase = "waiting"
    /\ loadPhase' = "raf1"
    /\ ev' = Event("load", "window", {})
    /\ prevented' = FALSE
    /\ UNCHANGED <<initVars, drawerVars, transVars, linkVars, isPreload, painted,
                   videoCfg, autoVars>>

\* Mutation: the load handler waits for one frame only.
AnimationFrameSingle ==
    /\ loadPhase \in {"raf1", "raf2"}
    /\ loadPhase' = "done"
    /\ isPreload' = FALSE
    /\ attemptHeroVideoAutoplay
    /\ UNCHANGED painted
    /\ ev' = Event("frame", "window", {})
    /\ prevented' = FALSE
    /\ UNCHANGED <<initVars, drawerVars, transVars, linkVars, videoCfg>>

\* An animation frame: the pending callback runs, then the frame is painted.
\* The first callback requests the second (line 21); the second removes
\* is-preload and starts the autoplay (lines 22-23).
AnimationFrame ==
    /\ loadPhase \in {"raf1", "raf2"}
    /\ IF loadPhase = "raf1"
       THEN /\ loadPhase' = "raf2"
            /\ painted' = TRUE
            /\ UNCHANGED <<isPreload, autoVars>>
       ELSE /\ loadPhase' = "done"
            /\ isPreload' = FALSE
            /\ attemptHeroVideoAutoplay
            /\ UNCHANGED painted
    /\ ev' = Event("frame", "window", {})
    /\ prevented' = FALSE
    /\ UNCHANGED <<initVars, drawerVars, transVars, linkVars, videoCfg>>

\* The video's loadeddata event: readyState is now >= 2; the once-listener
\* of line 56 runs when registered.
LoadedData ==
    /\ Started
    /\ hasVideo
    /\ videoReady' = TRUE
    /\ IF loadedDataArmed
       THEN loadedDataArmed' = FALSE /\ tryPlay
       ELSE UNCHANGED <<loadedDataArmed, tries, playTimers>>
    /\ ev' = Event("loadeddata", "video", {})
    /\ prevented' = FALSE
    /\ UNCHANGED <<initVars, drawerVars, transVars, linkVars, loadVars, videoCfg, autoplayOn,
                   gestureArmed, docHidden, paused, playCalls, pendingRejects, rejections,
                   autoplayAttr>>

\* A visibilitychange event (lines 59-61): the tab is hidden or shown.
VisibilityChange ==
    /\ Started
    /\ docHidden' = ~docHidden
    /\ IF autoplayOn /\ docHidden /\ paused
       THEN tryPlay
       ELSE UNCHANGED <<tries, playTimers>>
    /\ ev' = Event("visibilitychange", "document", {})
    /\ prevented' = FALSE
    /\ UNCHANGED <<initVars, drawerVars, transVars, linkVars, loadVars, videoCfg, videoReady,
                   autoplayOn, loadedDataArmed, gestureArmed, paused, playCalls,
                   pendingRejects, rejections, autoplayAttr>>

\* A touchstart or scroll event on the window.
Gesture(evt) ==
    /\ Started
    /\ evt \in Gestures \ {"click"}
    /\ GestureListener(evt)
    /\ ev' = Event(evt, "window", {})
    /\ prevented' = FALSE
    /\ UNCHANGED <<initVars, drawerVars, transVars, linkVars, loadVars, videoCfg>>

\* A timer of tryPlay fires and v.play() does o.
PlayTimerFires(o) ==
    /\ playTimers > 0
    /\ o \in PlayOutcomes
    /\ PlayCallback(o)
    /\ ev' = Event("timeout", "tryPlay", {})
    /\ prevented' = FALSE
    /\ UNCHANGED <<initVars, drawerVars, transVars, linkVars, loadVars, videoCfg,
                   videoReady, autoplayOn, loadedDataArmed, gestureArmed, docHidden, tries,
                   rejections, autoplayAttr>>

\* A play() promise rejects and its catch handler runs.
PlayRejects ==
    /\ pendingRejects > 0
    /\ pendingRejects' = pendingRejects - 1
    /\ CatchHandler
    /\ ev' = Event("reject", "video", {})
    /\ prevented' = FALSE
    /\ UNCHANGED <<initVars, drawerVars, transVars, linkVars, loadVars, videoCfg,
                   videoReady, autoplayOn, loadedDataArmed, gestureArmed, docHidden, paused,
                   tries, playTimers, playCalls>>

\* The playing video pauses (the browser or the user stops it).
VideoPauses ==
    /\ hasVideo
    /\ ~paused
    /\ paused' = TRUE
    /\ ev' = Event("pause", "video", {})
    /\ prevented' = FALSE
    /\ UNCHANGED <<initVars, drawerVars, transVars, linkVars, loadVars, videoCfg,
                   videoReady, autoplayOn, loadedDataArmed, gestureArmed, docHidden, tries,
                   playTimers, playCalls, pendingRejects, rejections, autoplayAttr>>


----------------------------------------------------------------------------
(* Initial states *)

PlainAnchor == [cls |-> "none", rel |-> <<>>, target |-> "", href |-> "#section"]

NoEvent == Event("none", "none", {})

SeqsUpTo(S, n) == UNION {[1..k -> S] : k \in 0..n}

DrawerLists ==
    {s \in SeqsUpTo(DrawerKinds, MaxDrawer) : Cardinality({i \in DOMAIN s : s[i] = "close"}) <= 1}

PresentSets == {Handles} \cup {Handles \ {h} : h \in Handles}

\* The script is evaluated while the document loads, or later.
InitSequencer ==
    /\ readyState \in {"loading", "complete"}
    /\ initRuns = 0

\* initMobileNav has not been called a second time.
InitSecond ==
    /\ navInstalled2 = FALSE
    /\ keydownOn2 = FALSE
    /\ lastFocused2 = "null"
    /\ secondFirst = FALSE

\* Markup in which the drawer of the given contents is closed.
InitDrawerClosed ==
    /\ InitSecond
    /\ navInstalled = FALSE
    /\ navOpen = FALSE
    /\ ariaExpanded = "false"
    /\ ariaHidden = "true"
    /\ backdropHidden = TRUE
    /\ keydownOn = FALSE
    /\ activeElement = "body"
    /\ lastFocused = "null"
    /\ pageConnected = TRUE

\* A page without drawer markup.
InitNoDrawer ==
    /\ present = {}
    /\ drawerEls = <<>>
    /\ InitDrawerClosed

InitEvents == ev = NoEvent /\ prevented = FALSE

InitTransition ==
    /\ isExiting = FALSE
    /\ navTimers = <<>>
    /\ location = Here

InitPlainLinks ==
    /\ anchor = PlainAnchor
    /\ enhanceRuns = 0
    /\ firstRun = PlainAnchor

InitLoad ==
    /\ loadPhase = "waiting"
    /\ isPreload = TRUE
    /\ painted = FALSE

InitVideoState ==
    /\ autoplayOn = FALSE
    /\ loadedDataArmed = FALSE
    /\ gestureArmed = {}
    /\ docHidden = FALSE
    /\ paused = TRUE
    /\ tries = 0
    /\ playTimers = 0
    /\ playCalls = 0
    /\ pendingRejects = 0
    /\ rejections = 0
    /\ autoplayAttr = "none"

\* A page without hero video.
InitNoVideo ==
    /\ hasVideo = FALSE
    /\ prefersReduce = FALSE
    /\ videoReady = FALSE
    /\ InitVideoState

----------------------------------------------------------------------------
(* The mobile drawer controller, on markup that starts closed *)

Init ==
    /\ InitSequencer
    /\ present \in PresentSets
    /\ drawerEls \in DrawerLists
    /\ "drawer" \notin present => drawerEls = <<>>
    /\ "closeBtn" \notin present => \A i \in DOMAIN drawerEls : drawerEls[i] # "close"
    /\ InitDrawerClosed
    /\ InitEvents
    /\ InitTransition
    /\ InitPlainLinks
    /\ InitLoad
    /\ InitNoVideo

Next ==
    \/ RunInit
    \/ \E moves \in BOOLEAN : ToggleClick(moves)
    \/ \E moves \in BOOLEAN : CloseBtnClick(moves)
    \/ \E moves \in BOOLEAN : BackdropClick(moves)
    \/ \E i \in 1..MaxDrawer, moves \in BOOLEAN, mods \in ModSets : DrawerLinkClick(i, moves, mods)
    \/ KeydownEscape
    \/ \E shift \in BOOLEAN : KeydownTab(shift)
    \/ \E key \in OtherKeys : KeydownOther(key)
    \/ \E w \in Widths : Resize(w)
    \/ \E el \in {"body", "toggle", "page"} : UserFocus(el)
    \/ RemovePage

Spec == Init /\ [][Next]_vars


----------------------------------------------------------------------------
(* The mobile drawer controller, on any markup of the four attributes *)

AttrValues == {"true", "false", "none"}

MarkupDrawers == {<<>>, <<"a">>, <<"close", "a">>, <<"div", "disabled">>}

InitMarkup ==
    /\ InitSequencer
    /\ present = Handles
    /\ drawerEls \in MarkupDrawers
    /\ InitSecond
    /\ navInstalled = FALSE
    /\ navOpen \in BOOLEAN
    /\ ariaExpanded \in AttrValues
    /\ ariaHidden \in AttrValues
    /\ backdropHidden \in BOOLEAN
    /\ keydownOn = FALSE
    /\ activeElement = "body"
    /\ lastFocused = "null"
    /\ pageConnected = TRUE
    /\ InitEvents
    /\ InitTransition
    /\ InitPlainLinks
    /\ InitLoad
    /\ InitNoVideo

SpecMarkup == InitMarkup /\ [][Next]_vars

----------------------------------------------------------------------------
(* Claims about the mobile drawer controller *)

MirrorsAgree ==
    /\ navOpen <=> ariaExpanded = "true"
    /\ navOpen <=> ariaHidden = "false"
    /\ navOpen <=> ~backdropHidden

\* C1: once the controller is set up, after any sequence of toggle, close
\* button, backdrop and drawer-link clicks, Escape and Tab key presses and
\* resize events, body has nav-open iff aria-expanded is "true" iff
\* aria-hidden is "false" iff the backdrop has no hidden attribute.
C1_MirrorsAgree == navInstalled => MirrorsAgree

\* The drawer has been opened and closed again by a key press.
C1_Witness ==
    /\ navInstalled
    /\ ~navOpen
    /\ lastFocused # "null"
    /\ ev = Event("keydown", "Escape", {})

FirstFocusTarget == IF getFocusable # <<>> THEN getFocusable[1] ELSE "closeBtn"

\* C9: a toggle click that calls open() on a closed drawer records the
\* focused element, sets nav-open, aria-expanded="true", aria-hidden="false",
\* shows the backdrop and focuses the drawer's first focusable element (the
\* close button when it has none); one that calls open() on an open drawer
\* changes no attribute, not the focus and not the recorded element.
C9_OpenGuarded ==
    [][\A moves \in BOOLEAN :
          (ToggleClick(moves) /\ navInstalled /\ ariaExpanded # "true") =>
              IF navOpen
              THEN /\ UNCHANGED drawerRest
                   /\ activeElement' = ClickFocus("toggle", moves)
              ELSE /\ lastFocused' = ClickFocus("toggle", moves)
                   /\ navOpen'
                   /\ ariaExpanded' = "true"
                   /\ ariaHidden' = "false"
                   /\ ~backdropHidden'
                   /\ activeElement' = FirstFocusTarget]_vars

\* The toggle was clicked while nav-open was set and aria-expanded was not
\* "true": open() ran on an open drawer.
C9_Witness ==
    /\ navInstalled
    /\ navOpen
    /\ ariaExpanded # "true"
    /\ ev = Event("click", "toggle", {})

\* C10: every close leaves the focus on the element recorded at open when
\* that element can still take it, and on the toggle button otherwise.
C10_CloseRestoresFocus ==
    [][(navOpen /\ ~navOpen') =>
          activeElement' = IF lastFocused # "null" /\ CanFocus(lastFocused)
                           THEN lastFocused
                           ELSE "toggle"]_vars


----------------------------------------------------------------------------
(* Page load and hero autoplay *)

InitAutoplay ==
    /\ InitSequencer
    /\ InitNoDrawer
    /\ InitEvents
    /\ InitTransition
    /\ InitPlainLinks
    /\ InitLoad
    /\ hasVideo \in BOOLEAN
    /\ prefersReduce \in BOOLEAN
    /\ videoReady \in BOOLEAN
    /\ ~hasVideo => ~videoReady
    /\ InitVideoState

NextAutoplay ==
    \/ RunInit
    \/ Load
    \/ AnimationFrame
    \/ LoadedData
    \/ VisibilityChange
    \/ \E evt \in Gestures : Gesture(evt)
    \/ PageClick({})
    \/ \E o \in PlayOutcomes : PlayTimerFires(o)
    \/ PlayRejects
    \/ VideoPauses

SpecAutoplay == InitAutoplay /\ [][NextAutoplay]_vars


----------------------------------------------------------------------------
(* Claims about the hero autoplay retry *)

\* C2: the attempt counter never exceeds 4, v.play() is invoked at most 4
\* times, and once the counter is at 4 no step raises it or schedules a
\* timer, whatever events arrive.
C2_RetryCap ==
    /\ [](tries <= maxTries /\ playCalls <= maxTries)
    /\ [][tries >= maxTries => (tries' = tries /\ playTimers' <= playTimers)]_vars

\* A visibility regain with the video paused has just called tryPlay at
\* the cap: nothing was scheduled.
C2_Witness ==
    /\ ev = Event("visibilitychange", "document", {})
    /\ autoplayOn
    /\ ~docHidden
    /\ paused
    /\ tries = maxTries
    /\ playCalls = maxTries
    /\ playTimers = 0

\* C3: when all 4 attempts have been rejected the video carries
\* data-autoplay="failed", no timer is pending, and no later event
\* schedules a timer or invokes play.
C3_AllRejected ==
    /\ [](rejections = maxTries =>
             (autoplayAttr = "failed" /\ playTimers = 0 /\ playCalls = maxTries))
    /\ [][rejections = maxTries => (playTimers' = 0 /\ playCalls' = playCalls)]_vars

\* After four rejections a gesture arrives with the video still paused.
C3_Witness ==
    /\ rejections = maxTries
    /\ autoplayAttr = "failed"
    /\ paused
    /\ ev = Event("scroll", "window", {})
    /\ "scroll" \notin gestureArmed

\* C4: with the reduced-motion preference set, play is never invoked, no
\* tryPlay timer is ever scheduled and no autoplay listener is registered.
C4_ReducedMotion ==
    prefersReduce =>
        /\ playCalls = 0
        /\ playTimers = 0
        /\ tries = 0
        /\ ~autoplayOn
        /\ ~loadedDataArmed
        /\ gestureArmed = {}

\* The preference is set, the page has a ready hero video, the second
\* animation frame has run and a gesture has arrived since.
C4_Witness ==
    /\ prefersReduce
    /\ hasVideo
    /\ videoReady
    /\ loadPhase = "done"
    /\ ev = Event("touchstart", "window", {})


----------------------------------------------------------------------------
(* The link hardener on every rel attribute *)

Classes == {"btn", "cta", "none"}

InitEnhance ==
    /\ InitSequencer
    /\ InitNoDrawer
    /\ InitEvents
    /\ InitTransition
    /\ anchor \in [cls : Classes, rel : SeqsUpTo(RelSyms, MaxRelLen),
                   target : {"", "_self"}, href : {"/about"}]
    /\ enhanceRuns = 0
    /\ firstRun = anchor
    /\ InitLoad
    /\ InitNoVideo

NextEnhance ==
    \/ RunInit
    \/ EnhanceAgain

SpecEnhance == InitEnhance /\ [][NextEnhance]_vars

\* The tokens of a rel attribute as the browser reads it (relList): split
\* on ASCII whitespace.
RECURSIVE Tokens(_)
Tokens(s) ==
    IF \A i \in 1..Len(s) : s[i] \notin {Space, Tab}
    THEN (IF s = <<>> THEN <<>> ELSE <<s>>)
    ELSE LET k == CHOOSE i \in 1..Len(s) :
                     s[i] \in {Space, Tab} /\ \A j \in 1..(i - 1) : s[j] \notin {Space, Tab}
         IN  (IF k = 1 THEN <<>> ELSE <<SubSeq(s, 1, k - 1)>>)
             \o Tokens(SubSeq(s, k + 1, Len(s)))

\* The tokens of a rel attribute separated by U+0020 only.
SpaceTokens(s) == SelectSeq(Split(s, Space), NonEmpty)

Count(toks, w) == Cardinality({i \in 1..Len(toks) : toks[i] = <<w>>})

IsUnrelated(tok) == tok # <<"noopener">> /\ tok # <<"noreferrer">>

Unrelated(toks) == SelectSeq(toks, IsUnrelated)

Max(a, b) == IF a > b THEN a ELSE b

\* A step that runs enhanceButtonLinks.
EnhanceStep == RunInit \/ EnhanceAgain

\* C5 as stated: after enhanceButtonLinks an anchor with class btn or cta
\* has target "_blank", its rel holds noopener exactly once and noreferrer
\* exactly once, and the unrelated tokens it had are kept in order.
C5_ExactlyOnce ==
    [][(EnhanceStep /\ IsButtonLink(anchor)) =>
          /\ anchor'.target = "_blank"
          /\ Count(Tokens(anchor'.rel), "noopener") = 1
          /\ Count(Tokens(anchor'.rel), "noreferrer") = 1
          /\ Unrelated(Tokens(anchor'.rel)) = Unrelated(Tokens(anchor.rel))]_vars

\* C5 amended: after enhanceButtonLinks an anchor with class btn or cta has
\* target "_blank"; its rel holds noopener and noreferrer, each as often as
\* before among the space-separated tokens and once when it was missing
\* there; the unrelated tokens it had are kept in order.
C5_NeverAddsDuplicate ==
    [][(EnhanceStep /\ IsButtonLink(anchor)) =>
          /\ anchor'.target = "_blank"
          /\ \A w \in {"noopener", "noreferrer"} :
                /\ Count(SpaceTokens(anchor'.rel), w) = Max(1, Count(SpaceTokens(anchor.rel), w))
                /\ Count(Tokens(anchor'.rel), w) >= 1
          /\ Unrelated(SpaceTokens(anchor'.rel)) = Unrelated(SpaceTokens(anchor.rel))
          /\ Unrelated(Tokens(anchor'.rel)) = Unrelated(Tokens(anchor.rel))]_vars

\* A button link whose markup held noopener twice and an unrelated token
\* has been enhanced.
C5_Witness ==
    /\ enhanceRuns = 1
    /\ anchor.cls = "btn"
    /\ anchor.target = "_blank"
    /\ Count(Tokens(anchor.rel), "noopener") = 2
    /\ Count(Tokens(anchor.rel), "noreferrer") = 1

\* C6: a second run of enhanceButtonLinks leaves rel and target as the
\* first run left them, and no run changes an anchor without class btn or cta.
C6_Idempotent ==
    /\ [](enhanceRuns >= 1 => anchor = firstRun)
    /\ [][(EnhanceStep /\ (enhanceRuns >= 1 \/ ~IsButtonLink(anchor))) => anchor' = anchor]_vars

\* A button link with an unrelated token and without noopener in its markup
\* has been enhanced twice.
C6_Witness ==
    /\ enhanceRuns = 2
    /\ anchor.cls = "cta"
    /\ anchor.rel = <<"x", Space, "noopener", Space, "noreferrer">>

----------------------------------------------------------------------------
(* The page transition controller on every anchor *)

Targets == {"", "_blank", "_self"}

InitClick ==
    /\ InitSequencer
    /\ InitNoDrawer
    /\ InitEvents
    /\ InitTransition
    /\ anchor \in [cls : Classes, rel : {<<>>}, target : Targets, href : Hrefs]
    /\ enhanceRuns = 0
    /\ firstRun = anchor
    /\ InitLoad
    /\ InitNoVideo

NextClick ==
    \/ RunInit
    \/ \E mods \in ModSets : AnchorClick(mods)
    \/ \E mods \in ModSets : PageClick(mods)
    \/ Tick
    \/ NavTimerFires

SpecClick == InitClick /\ [][NextClick]_vars

\* Timers fire once they are due, and time does not stop while one is pending.
SpecClickFair == SpecClick /\ WF_vars(Tick) /\ WF_vars(NavTimerFires)

\* The click is plain and the anchor is same-origin, without target, and
\* its href does not start with '#'.
PlainInternal(mods) ==
    /\ mods = {}
    /\ SameOrigin(anchor.href)
    /\ anchor.target = ""
    /\ ~StartsWithHash(anchor.href)

\* C7: a plain click on such an anchor is cancelled and adds is-exiting at
\* once, leaving location alone; location.href is assigned the anchor's
\* URL only by a timer that has waited 240 ms, and it is assigned once the
\* timer may fire.
C7_ExitThenNavigate ==
    /\ [][\A mods \in ModSets :
             (AnchorClick(mods) /\ PlainInternal(mods)) =>
                 /\ prevented'
                 /\ isExiting'
                 /\ location' = location
                 /\ Len(navTimers') = Len(navTimers) + 1
                 /\ navTimers'[Len(navTimers')].url = anchor.href
                 /\ navTimers'[Len(navTimers')].elapsed = 0]_vars
    /\ [][location' # location =>
             /\ navTimers # <<>>
             /\ Head(navTimers).elapsed >= ExitDelay
             /\ location' = Head(navTimers).url]_vars
    /\ (navTimers # <<>>) ~> (location = anchor.href)

\* The exit timer of an intercepted click has fired.
C7_Witness ==
    /\ isExiting
    /\ location = "/about"
    /\ navTimers = <<>>
    /\ ev = Event("timeout", "navigate", {})

\* The click passes through: it is not on an anchor, or the anchor is
\* external or has a target, or a modifier is held, or the href starts with '#'.
PassesThrough(mods) ==
    \/ ~SameOrigin(anchor.href)
    \/ anchor.target # ""
    \/ mods # {}
    \/ StartsWithHash(anchor.href)

\* C8: such a click is not cancelled, adds no is-exiting and schedules no
\* timer; nor does a click outside every anchor.
C8_PassThrough ==
    [][\A mods \in ModSets :
          ((AnchorClick(mods) /\ PassesThrough(mods)) \/ PageClick(mods)) =>
              /\ ~prevented'
              /\ isExiting' = isExiting
              /\ navTimers' = navTimers
              /\ location' = location]_vars

\* A ctrl-click on an internal anchor went through untouched.
C8_Witness ==
    /\ ev = Event("click", "anchor", {"ctrl"})
    /\ anchor.href = "/about"
    /\ anchor.target = ""
    /\ ~prevented
    /\ ~isExiting


----------------------------------------------------------------------------
(* Claims about the focus trap and the missing-markup guard *)

\* C11: while the drawer is open and has focusable elements, Tab on the
\* last one focuses the first and is cancelled, Shift+Tab on the first
\* focuses the last and is cancelled, and in every other position the key
\* is not cancelled and the focus goes where the browser's default takes it.
C11_TrapWraps ==
    [][\A shift \in BOOLEAN :
          (navInstalled /\ navOpen /\ getFocusable # <<>> /\ KeydownTab(shift)) =>
              LET first == getFocusable[1]
                  last == getFocusable[Len(getFocusable)]
              IN  IF ~shift /\ activeElement = last
                  THEN prevented' /\ activeElement' = first
                  ELSE IF shift /\ activeElement = first
                  THEN prevented' /\ activeElement' = last
                  ELSE ~prevented' /\ activeElement' = NextTab(activeElement, shift)]_vars

\* Tab on the last of two focusable elements has wrapped to the first.
C11_Witness ==
    /\ navOpen
    /\ Len(getFocusable) = 2
    /\ activeElement = getFocusable[1]
    /\ prevented
    /\ ev = Event("keydown", "Tab", {})

\* C12: when one of the four handles is missing, nothing is registered:
\* nav-open, the three attributes, the keydown listener and lastFocused
\* stay as the markup left them, and the focus moves only as the browser
\* moves it.
C12_MissingHandle ==
    /\ [](present # Handles =>
             /\ ~navInstalled
             /\ ~navOpen
             /\ ariaExpanded = "false"
             /\ ariaHidden = "true"
             /\ backdropHidden
             /\ ~keydownOn
             /\ lastFocused = "null")
    /\ [][present # Handles =>
             /\ \A moves \in BOOLEAN :
                   /\ ToggleClick(moves) => activeElement' = ClickFocus("toggle", moves)
                   /\ CloseBtnClick(moves) => activeElement' = ClickFocus("closeBtn", moves)
             /\ \A shift \in BOOLEAN :
                   KeydownTab(shift) => activeElement' = NextTab(activeElement, shift)
             /\ (KeydownEscape \/ \E w \in Widths : Resize(w)) => activeElement' = activeElement]_vars

\* The toggle exists but the backdrop does not; init has run and the
\* toggle has been clicked.
C12_Witness ==
    /\ present = Handles \ {"backdrop"}
    /\ initRuns = 1
    /\ ev = Event("click", "toggle", {})


----------------------------------------------------------------------------
(* Claims about the load sequence, the failure marker and button links *)

\* C14: is-preload is removed and the autoplay is started only by the second
\* of two animation-frame callbacks that follow the load event, so a frame
\* has been painted with is-preload still set; before that callback no
\* play attempt has been made and no autoplay listener is registered.
C14_TwoFrames ==
    /\ [](~isPreload => loadPhase = "done" /\ painted)
    /\ [](loadPhase # "done" =>
             /\ isPreload
             /\ ~autoplayOn
             /\ ~loadedDataArmed
             /\ gestureArmed = {}
             /\ tries = 0
             /\ playTimers = 0
             /\ playCalls = 0)
    /\ [][isPreload /\ ~isPreload' =>
             /\ loadPhase = "raf2"
             /\ painted
             /\ ev' = Event("frame", "window", {})]_vars
    /\ [][loadPhase = "waiting" /\ loadPhase' # "waiting" =>
             /\ ev' = Event("load", "window", {})
             /\ loadPhase' = "raf1"
             /\ isPreload'
             /\ ~painted']_vars

\* The second callback has just removed is-preload and started the autoplay.
C14_Witness ==
    /\ ev = Event("frame", "window", {})
    /\ loadPhase = "done"
    /\ ~isPreload
    /\ painted
    /\ autoplayOn
    /\ tries = 1

\* C19: once data-autoplay is "failed" no step changes it, a later
\* successful play included.
C19_FailedSticks ==
    [][autoplayAttr = "failed" => autoplayAttr' = "failed"]_vars

\* The video plays after an earlier attempt was rejected and marked.
C19_Witness ==
    /\ autoplayAttr = "failed"
    /\ rejections >= 1
    /\ ~paused
    /\ playCalls >= 2

\* C20: after init a click on a btn or cta anchor is never intercepted,
\* whatever its href and the modifier keys; before init a plain click on a
\* same-origin btn or cta anchor without target and hash is intercepted
\* like any internal link.
C20_ButtonLinks ==
    /\ [][\A mods \in ModSets :
             (AnchorClick(mods) /\ IsButtonLink(anchor) /\ initRuns > 0) =>
                 /\ anchor.target = "_blank"
                 /\ ~prevented'
                 /\ isExiting' = isExiting
                 /\ navTimers' = navTimers
                 /\ location' = location]_vars
    /\ [][\A mods \in ModSets :
             (AnchorClick(mods) /\ IsButtonLink(anchor) /\ initRuns = 0
                 /\ PlainInternal(mods)) =>
                 /\ prevented'
                 /\ isExiting'
                 /\ Len(navTimers') = Len(navTimers) + 1
                 /\ navTimers'[Len(navTimers')].url = anchor.href]_vars

\* A same-origin button link was clicked before init and intercepted, and
\* clicked again after init without being cancelled.
C20_Witness ==
    /\ IsButtonLink(anchor)
    /\ SameOrigin(anchor.href)
    /\ ~StartsWithHash(anchor.href)
    /\ initRuns = 1
    /\ isExiting
    /\ Len(navTimers) = 1
    /\ ev = Event("click", "anchor", {})
    /\ ~prevented


----------------------------------------------------------------------------
(* Claims about the close triggers *)

\* The drawer is closed in the next state: nav-open absent, the mirrored
\* attributes in their closed values, the keydown listener removed.
ClosedNext ==
    /\ ~navOpen'
    /\ ariaExpanded' = "false"
    /\ ariaHidden' = "true"
    /\ backdropHidden'
    /\ ~keydownOn'

\* A step of one of the five close triggers (the label of the step is
\* looked at first).
CloseTrigger ==
    \/ /\ ev'.type = "click"
       /\ \/ ev'.target = "closeBtn" /\ \E moves \in BOOLEAN : CloseBtnClick(moves)
          \/ ev'.target = "backdrop" /\ \E moves \in BOOLEAN : BackdropClick(moves)
          \/ \E i \in 1..Len(drawerEls), moves \in BOOLEAN :
                ev'.target = ElRef(i) /\ DrawerLinkClick(i, moves, ev'.mods)
    \/ ev'.type = "keydown" /\ KeydownEscape
    \/ ev'.type = "resize" /\ \E w \in Widths : w > Breakpoint /\ Resize(w)

\* A key press.
KeyPress ==
    /\ ev'.type = "keydown"
    /\ \/ KeydownEscape
       \/ \E shift \in BOOLEAN : KeydownTab(shift)
       \/ \E key \in OtherKeys : KeydownOther(key)

\* C15: each close trigger leaves the drawer closed in the same step and
\* changes nothing of a closed drawer; a resize to 720 or less, Tab and any
\* other key but Escape leave the drawer open or closed as it was; while
\* the drawer is closed no key press is cancelled or changes the drawer.
C15_CloseTriggers ==
    /\ [][CloseTrigger => ClosedNext /\ (~navOpen => UNCHANGED drawerRest)]_vars
    /\ [][((ev'.type = "resize" /\ \E w \in Widths : w <= Breakpoint /\ Resize(w))
             \/ (ev'.type = "keydown" /\ \E shift \in BOOLEAN : KeydownTab(shift))
             \/ (ev'.type = "keydown" /\ \E key \in OtherKeys : KeydownOther(key)))
              => UNCHANGED drawerRest]_vars
    /\ [][(KeyPress /\ ~navOpen) =>
             /\ ~prevented'
             /\ UNCHANGED drawerRest
             /\ (KeydownEscape \/ \E key \in OtherKeys : KeydownOther(key)) =>
                    activeElement' = activeElement]_vars

\* A click on the backdrop, which is clickable only while the drawer is
\* open, has closed the drawer.
C15_Witness ==
    /\ ev = Event("click", "backdrop", {})
    /\ navInstalled
    /\ ~navOpen
    /\ backdropHidden
    /\ ~keydownOn


----------------------------------------------------------------------------
(* Claims about the toggle and the focus trap as a whole *)

\* C17: a click on the toggle always inverts the open state, whatever the
\* markup's aria-expanded was.
C17_AlwaysToggles ==
    [][\A moves \in BOOLEAN :
          (ToggleClick(moves) /\ navInstalled) => navOpen' = ~navOpen]_vars

\* Where the toggle does work: when aria-expanded is "true" exactly when
\* nav-open is set, a click on the toggle inverts the open state and leaves
\* the two in agreement, so that n clicks leave the drawer open exactly
\* when n is odd.
TogglesWhenMirrored ==
    [][\A moves \in BOOLEAN :
          (ToggleClick(moves) /\ navInstalled /\ (navOpen <=> ariaExpanded = "true")) =>
              /\ navOpen' = ~navOpen
              /\ navOpen' <=> ariaExpanded' = "true"]_vars

\* A click on the toggle has opened a drawer whose markup agreed.
TogglesWhenMirrored_Witness ==
    /\ ev = Event("click", "toggle", {})
    /\ navInstalled
    /\ navOpen
    /\ ariaExpanded = "true"
    /\ lastFocused # "null"

\* C18: while nav-open is set the focused element is inside the drawer,
\* whatever the number of focusable elements.
C18_FocusInsideDrawer ==
    (navInstalled /\ navOpen) => activeElement \in DrawerIds

\* Where the trap does hold: while nav-open is set and the drawer has at
\* least one focusable element, the focused element is one of them.
FocusInsideWhenFocusable ==
    (navInstalled /\ navOpen /\ getFocusable # <<>>) =>
        \E i \in 1..Len(getFocusable) : activeElement = getFocusable[i]

\* Tab on the last of two focusable elements was cancelled and the focus
\* is back on the first.
FocusInsideWhenFocusable_Witness ==
    /\ navInstalled
    /\ navOpen
    /\ Len(getFocusable) = 2
    /\ activeElement = getFocusable[1]
    /\ ev = Event("keydown", "Tab", {})
    /\ prevented
    /\ lastFocused # "null"


----------------------------------------------------------------------------
(* Drawer links that lead to another page of the site *)

InternalAnchor == [cls |-> "none", rel |-> <<>>, target |-> "", href |-> "/about"]

NavDrawers == {<<"a">>, <<"close", "a">>, <<"a", "a">>}

\* The drawer's links are internal links; everything else as in Init.
InitDrawerNav ==
    /\ InitSequencer
    /\ present = Handles
    /\ drawerEls \in NavDrawers
    /\ InitDrawerClosed
    /\ InitEvents
    /\ InitTransition
    /\ anchor = InternalAnchor
    /\ enhanceRuns = 0
    /\ firstRun = InternalAnchor
    /\ InitLoad
    /\ InitNoVideo

NextDrawerNav ==
    \/ RunInit
    \/ \E moves \in BOOLEAN : ToggleClick(moves)
    \/ \E moves \in BOOLEAN : CloseBtnClick(moves)
    \/ \E moves \in BOOLEAN : BackdropClick(moves)
    \/ \E i \in 1..MaxDrawer, moves \in BOOLEAN, mods \in ModSets : DrawerLinkClick(i, moves, mods)
    \/ KeydownEscape
    \/ \E shift \in BOOLEAN : KeydownTab(shift)
    \/ Tick
    \/ NavTimerFires

SpecDrawerNav == InitDrawerNav /\ [][NextDrawerNav]_vars

\* Timers fire once they are due, and time does not stop while one is pending.
SpecDrawerNavFair == SpecDrawerNav /\ WF_vars(Tick) /\ WF_vars(NavTimerFires)

\* A plain click on link i of the open drawer.
OpenDrawerLinkClick ==
    /\ navInstalled
    /\ navOpen
    /\ \E i \in 1..MaxDrawer, moves \in BOOLEAN : DrawerLinkClick(i, moves, {})

\* The part of C16 that does not depend on where the focus lands: the click
\* closes the drawer in the step that cancels it, adds is-exiting and starts
\* the 240 ms timer; location changes only when that timer fires, and it
\* does fire.
ClosesBeforeExit ==
    /\ [][OpenDrawerLinkClick =>
             /\ ClosedNext
             /\ prevented'
             /\ isExiting'
             /\ location' = location
             /\ Len(navTimers') = Len(navTimers) + 1
             /\ navTimers'[Len(navTimers')].url = anchor.href
             /\ navTimers'[Len(navTimers')].elapsed = 0]_vars
    /\ [][location' # location =>
             /\ navTimers # <<>>
             /\ Head(navTimers).elapsed >= ExitDelay
             /\ location' = Head(navTimers).url]_vars
    /\ (navTimers # <<>>) ~> (location = anchor.href)

\* A click on a link of the open drawer has closed it and started the exit.
ClosesBeforeExit_Witness ==
    /\ navInstalled
    /\ ~navOpen
    /\ lastFocused # "null"
    /\ isExiting
    /\ prevented
    /\ ev.type = "click"
    /\ ev.target \in DrawerIds
    /\ location = Here

\* C16: a plain click on an internal link of the open drawer closes the
\* drawer and restores the focus in the step that adds is-exiting, before
\* the 240 ms timer assigns location.href; the click is cancelled and the
\* navigation happens once the timer may fire.
C16_ClosedAndRestoredBeforeExit ==
    /\ ClosesBeforeExit
    /\ [][OpenDrawerLinkClick =>
             activeElement' = IF lastFocused # "null" /\ CanFocus(lastFocused)
                              THEN lastFocused
                              ELSE "toggle"]_vars


----------------------------------------------------------------------------
(* init() called more than once.  Every call of initMobileNav makes a     *)
(* closure of its own (lastFocused, open, close, onKeydown) and registers  *)
(* its listeners after those of the earlier calls; an event runs the       *)
(* listeners of its target in the order of registration.                   *)

\* The closures' keydown listeners on document, in the order of registration.
KeydownListeners ==
    IF keydownOn /\ keydownOn2 THEN (IF secondFirst THEN <<2, 1>> ELSE <<1, 2>>)
    ELSE IF keydownOn THEN <<1>>
    ELSE IF keydownOn2 THEN <<2>>
    ELSE <<>>

\* The drawer's DOM state and the closures' variables as one value, when
\* document.activeElement is cur.
DomAt(cur) ==
    [navOpen |-> navOpen,
     ariaExpanded |-> ariaExpanded,
     ariaHidden |-> ariaHidden,
     backdropHidden |-> backdropHidden,
     activeElement |-> cur,
     lf |-> <<lastFocused, lastFocused2>>,
     kd |-> KeydownListeners,
     prevented |-> FALSE]

Registered(kd, k) == \E i \in 1..Len(kd) : kd[i] = k

\* document.addEventListener("keydown", onKeydown): a listener already
\* registered is not added again.
AddListener(kd, k) == IF Registered(kd, k) THEN kd ELSE Append(kd, k)

\* document.removeEventListener("keydown", onKeydown).
RemoveListener(kd, k) == SelectSeq(kd, LAMBDA j : j # k)

\* Mutation: open() forgets aria-expanded.
openOfNoExpanded(d, k) ==
    IF d.navOpen THEN d
    ELSE [d EXCEPT !.lf[k] = d.activeElement,
                   !.navOpen = TRUE,
                   !.ariaHidden = "false",
                   !.backdropHidden = FALSE,
                   !.activeElement = Focus(d.activeElement,
                                           IF getFocusable # <<>> THEN getFocusable[1] ELSE "closeBtn"),
                   !.kd = AddListener(@, k)]

\* open() of closure k (lines 147-157).
openOf(d, k) ==
    IF d.navOpen THEN d
    ELSE [d EXCEPT !.lf[k] = d.activeElement,
                   !.navOpen = TRUE,
                   !.ariaHidden = "false",
                   !.ariaExpanded = "true",
                   !.backdropHidden = FALSE,
                   !.activeElement = Focus(d.activeElement,
                                           IF getFocusable # <<>> THEN getFocusable[1] ELSE "closeBtn"),
                   !.kd = AddListener(@, k)]

\* close() of closure k (lines 159-171).
closeOf(d, k) ==
    IF ~d.navOpen THEN d
    ELSE [d EXCEPT !.navOpen = FALSE,
                   !.ariaHidden = "true",
                   !.ariaExpanded = "false",
                   !.backdropHidden = TRUE,
                   !.kd = RemoveListener(@, k),
                   !.activeElement = IF HasFocusMethod(d.lf[k])
                                     THEN Focus(d.activeElement, d.lf[k])
                                     ELSE Focus(d.activeElement, "toggle")]

\* The toggle's click listener of closure k (lines 173-177).
toggleOf(d, k) == IF d.ariaExpanded = "true" THEN closeOf(d, k) ELSE openOf(d, k)

\* trapTab(e) of any closure for e.key = "Tab" (lines 123-137).
trapTabOf(d, shift) ==
    LET focusables == getFocusable
        first == focusables[1]
        last == focusables[Len(focusables)]
    IN  IF ~d.navOpen \/ focusables = <<>> THEN d
        ELSE IF shift /\ d.activeElement = first
        THEN [d EXCEPT !.prevented = TRUE, !.activeElement = Focus(d.activeElement, last)]
        ELSE IF ~shift /\ d.activeElement = last
        THEN [d EXCEPT !.prevented = TRUE, !.activeElement = Focus(d.activeElement, first)]
        ELSE d

\* The listener named f of closure k.
Listener(f, d, k) ==
    CASE f = "toggle" -> toggleOf(d, k)
      [] f = "close" -> closeOf(d, k)
      [] f = "Tab" -> trapTabOf(d, FALSE)
      [] f = "Shift+Tab" -> trapTabOf(d, TRUE)

\* The closures whose listeners are registered on the four handles.
Closures ==
    (IF navInstalled THEN <<1>> ELSE <<>>) \o (IF navInstalled2 THEN <<2>> ELSE <<>>)

\* One event: the listener f of every closure of ks runs, in order.
RunListeners(f, d, ks) ==
    IF Len(ks) = 0 THEN d
    ELSE IF Len(ks) = 1 THEN Listener(f, d, ks[1])
    ELSE Listener(f, Listener(f, d, ks[1]), ks[2])

\* The DOM and the closures after the event.
SetDom(d) ==
    /\ navOpen' = d.navOpen
    /\ ariaExpanded' = d.ariaExpanded
    /\ ariaHidden' = d.ariaHidden
    /\ backdropHidden' = d.backdropHidden
    /\ activeElement' = d.activeElement
    /\ lastFocused' = d.lf[1]
    /\ lastFocused2' = d.lf[2]
    /\ keydownOn' = Registered(d.kd, 1)
    /\ keydownOn2' = Registered(d.kd, 2)
    /\ secondFirst' = (Len(d.kd) = 2 /\ d.kd[1] = 2)


\* A further call of init() (lines 197-200), which the script itself never
\* makes: enhanceButtonLinks runs again and initMobileNav registers the
\* listeners of a second closure.
InitAgain ==
    /\ initRuns = 1
    /\ initRuns' = initRuns + 1
    /\ enhanceButtonLinks
    /\ navInstalled2' = (present = Handles)
    /\ ev' = Event("init", "document", {})
    /\ prevented' = FALSE
    /\ UNCHANGED <<readyState, drawerCfg, navInstalled, drawerDom, pageConnected,
                   keydownOn2, lastFocused2, secondFirst, transVars, loadVars,
                   videoCfg, autoVars>>

\* A click on the toggle button: every closure's listener (lines 173-177).
ToggleClickAll(moves) ==
    /\ Started
    /\ "toggle" \in present
    /\ SetDom(RunListeners("toggle", DomAt(ClickFocus("toggle", moves)), Closures))
    /\ DocumentClick(FALSE, anchor, {})
    /\ GestureListener("click")
    /\ ev' = Event("click", "toggle", {})
    /\ UNCHANGED <<initVars, drawerCfg, navInstalled, navInstalled2, pageConnected,
                   linkVars, loadVars, videoCfg>>

\* A click on the close button: every closure's close (line 179).
CloseBtnClickAll(moves) ==
    /\ Started
    /\ "closeBtn" \in present
    /\ SetDom(RunListeners("close", DomAt(ClickFocus("closeBtn", moves)), Closures))
    /\ DocumentClick(FALSE, anchor, {})
    /\ GestureListener("click")
    /\ ev' = Event("click", "closeBtn", {})
    /\ UNCHANGED <<initVars, drawerCfg, navInstalled, navInstalled2, pageConnected,
                   linkVars, loadVars, videoCfg>>

\* A click on the shown backdrop: every closure's close (line 180).
BackdropClickAll(moves) ==
    /\ Started
    /\ "backdrop" \in present
    /\ ~backdropHidden
    /\ SetDom(RunListeners("close", DomAt(ClickFocus("backdrop", moves)), Closures))
    /\ DocumentClick(FALSE, anchor, {})
    /\ GestureListener("click")
    /\ ev' = Event("click", "backdrop", {})
    /\ UNCHANGED <<initVars, drawerCfg, navInstalled, navInstalled2, pageConnected,
                   linkVars, loadVars, videoCfg>>

\* A click on link i of the drawer: every closure's drawer listener
\* (lines 183-188), then the document's (lines 81-103).
DrawerLinkClickAll(i, moves, mods) ==
    /\ Started
    /\ "drawer" \in present
    /\ i \in 1..Len(drawerEls)
    /\ drawerEls[i] = "a"
    /\ TimerRoom(TRUE, anchor, mods)
    /\ SetDom(RunListeners("close", DomAt(ClickFocus(ElRef(i), moves)), Closures))
    /\ DocumentClick(TRUE, anchor, mods)
    /\ GestureListener("click")
    /\ ev' = Event("click", ElRef(i), mods)
    /\ UNCHANGED <<initVars, drawerCfg, navInstalled, navInstalled2, pageConnected,
                   linkVars, loadVars, videoCfg>>

\* An Escape keydown: every registered onKeydown (lines 139-145).
KeydownEscapeAll ==
    /\ Started
    /\ SetDom(RunListeners("close", DomAt(activeElement), KeydownListeners))
    /\ ev' = Event("keydown", "Escape", {})
    /\ prevented' = FALSE
    /\ UNCHANGED <<initVars, drawerCfg, navInstalled, navInstalled2, pageConnected,
                   transVars, linkVars, loadVars, videoCfg, autoVars>>

\* What the registered onKeydown listeners of ks and then the browser do
\* with a Tab or Shift+Tab keydown.
TabResult(shift, ks) ==
    LET d == RunListeners(IF shift THEN "Shift+Tab" ELSE "Tab", DomAt(activeElement), ks)
    IN  IF d.prevented THEN d
        ELSE [d EXCEPT !.activeElement = NextTab(d.activeElement, shift)]

\* A Tab or Shift+Tab keydown: every registered onKeydown -> trapTab, and
\* the browser's focus navigation unless one of them cancelled it.
KeydownTabAll(shift) ==
    /\ Started
    /\ SetDom(TabResult(shift, KeydownListeners))
    /\ prevented' = TabResult(shift, KeydownListeners).prevented
    /\ ev' = Event("keydown", "Tab", IF shift THEN {"shift"} ELSE {})
    /\ UNCHANGED <<initVars, drawerCfg, navInstalled, navInstalled2, pageConnected,
                   transVars, linkVars, loadVars, videoCfg, autoVars>>

\* A resize event with window.innerWidth = w: every closure's listener
\* (lines 191-193).
ResizeAll(w) ==
    /\ Started
    /\ IF w > Breakpoint
       THEN SetDom(RunListeners("close", DomAt(activeElement), Closures))
       ELSE UNCHANGED <<drawerDom, keydownOn2, lastFocused2, secondFirst>>
    /\ ev' = Event("resize", "window", {})
    /\ prevented' = FALSE
    /\ UNCHANGED <<initVars, drawerCfg, navInstalled, navInstalled2, pageConnected,
                   transVars, linkVars, loadVars, videoCfg, autoVars>>

TwiceAnchors == {PlainAnchor, [PlainAnchor EXCEPT !.cls = "btn"]}

InitTwice ==
    /\ InitSequencer
    /\ present = Handles
    /\ drawerEls \in MarkupDrawers
    /\ InitDrawerClosed
    /\ InitEvents
    /\ InitTransition
    /\ anchor \in TwiceAnchors
    /\ enhanceRuns = 0
    /\ firstRun = anchor
    /\ InitLoad
    /\ InitNoVideo

NextTwice ==
    \/ RunInit
    \/ InitAgain
    \/ \E moves \in BOOLEAN : ToggleClickAll(moves)
    \/ \E moves \in BOOLEAN : CloseBtnClickAll(moves)
    \/ \E moves \in BOOLEAN : BackdropClickAll(moves)
    \/ \E i \in 1..MaxDrawer, moves \in BOOLEAN, mods \in ModSets : DrawerLinkClickAll(i, moves, mods)
    \/ KeydownEscapeAll
    \/ \E shift \in BOOLEAN : KeydownTabAll(shift)
    \/ \E w \in Widths : ResizeAll(w)
    \/ \E el \in {"body", "toggle", "page"} : UserFocus(el)

SpecTwice == InitTwice /\ [][NextTwice]_vars


----------------------------------------------------------------------------
(* Claims about calling the setups twice *)

\* The listeners a single call of initMobileNav registers.
Once == IF navInstalled THEN <<1>> ELSE <<>>

\* The first closure's onKeydown, when registered.
OnceKeydown == IF keydownOn THEN <<1>> ELSE <<>>

\* The drawer state, the mirrored attributes and the focus of the next
\* state are those of d.
VisibleNext(d) ==
    /\ navOpen' = d.navOpen
    /\ ariaExpanded' = d.ariaExpanded
    /\ ariaHidden' = d.ariaHidden
    /\ backdropHidden' = d.backdropHidden
    /\ activeElement' = d.activeElement

\* With a single call the dispatch to the registered closures is the
\* single-closure handler of each event.
SingleCallAgrees ==
    [][~navInstalled2 =>
          /\ \A moves \in BOOLEAN :
                /\ ToggleClickAll(moves) => ToggleClick(moves)
                /\ CloseBtnClickAll(moves) => CloseBtnClick(moves)
                /\ BackdropClickAll(moves) => BackdropClick(moves)
                /\ \A i \in 1..MaxDrawer, mods \in ModSets :
                      DrawerLinkClickAll(i, moves, mods) => DrawerLinkClick(i, moves, mods)
          /\ KeydownEscapeAll => KeydownEscape
          /\ \A shift \in BOOLEAN : KeydownTabAll(shift) => KeydownTab(shift)
          /\ \A w \in Widths : ResizeAll(w) => Resize(w)]_vars

\* C13: after a second run of enhanceButtonLinks and initMobileNav every
\* event leaves the drawer state, the mirrored attributes and the focus as
\* the listeners of a single run would, and the anchors as the first run
\* left them.
C13_TwiceLikeOnce ==
    /\ [][InitAgain => anchor' = anchor]_vars
    /\ [][initRuns = 2 =>
             /\ \A moves \in BOOLEAN :
                   /\ ToggleClickAll(moves) =>
                         VisibleNext(RunListeners("toggle", DomAt(ClickFocus("toggle", moves)), Once))
                   /\ CloseBtnClickAll(moves) =>
                         VisibleNext(RunListeners("close", DomAt(ClickFocus("closeBtn", moves)), Once))
                   /\ BackdropClickAll(moves) =>
                         VisibleNext(RunListeners("close", DomAt(ClickFocus("backdrop", moves)), Once))
                   /\ \A i \in 1..MaxDrawer, mods \in ModSets :
                         DrawerLinkClickAll(i, moves, mods) =>
                             VisibleNext(RunListeners("close", DomAt(ClickFocus(ElRef(i), moves)), Once))
             /\ KeydownEscapeAll =>
                   VisibleNext(RunListeners("close", DomAt(activeElement), OnceKeydown))
             /\ \A shift \in BOOLEAN :
                   KeydownTabAll(shift) => VisibleNext(TabResult(shift, OnceKeydown))
             /\ \A w \in Widths :
                   (ResizeAll(w) /\ w > Breakpoint) =>
                       VisibleNext(RunListeners("close", DomAt(activeElement), Once))]_vars

\* C13 amended: a second run of enhanceButtonLinks changes no anchor; with
\* the listeners of one initMobileNav a click on the toggle inverts the
\* open state, and with those of two it runs both toggle listeners, the
\* second undoing the first, so that the open state and the mirrored
\* attributes are after the click what they were before it.
C13_EnhanceTwiceToggleUndone ==
    /\ [][InitAgain => anchor' = anchor]_vars
    /\ [][\A moves \in BOOLEAN :
             (ToggleClickAll(moves) /\ Len(Closures) = 1) =>
                 navOpen' = ~navOpen]_vars
    /\ [][\A moves \in BOOLEAN :
             (ToggleClickAll(moves) /\ Len(Closures) = 2) =>
                 /\ navOpen' = navOpen
                 /\ ariaExpanded' = ariaExpanded
                 /\ ariaHidden' = ariaHidden
                 /\ backdropHidden' = backdropHidden]_vars

\* After two runs a click on the toggle of the closed drawer ran open() of
\* the first closure and close() of the second: the drawer is closed again
\* and the first closure's onKeydown is still registered.
C13_Witness ==
    /\ initRuns = 2
    /\ navInstalled2
    /\ anchor.cls = "btn"
    /\ ev = Event("click", "toggle", {})
    /\ ~navOpen
    /\ keydownOn
    /\ lastFocused # "null"


====
